---- MODULE Spec2Model ----
(***************************************************************************)
(* ColdCaller, coldcaller/utils.py: the session scope                      *)
(* (_ClientContextManager), the three per-account operations               *)
(* (verify_account, leave_all, unblock_all) and the three batch            *)
(* operations (verify_all, leave_all_as_all, unblock_all_as_all), as       *)
(* asyncio coroutines.  One action is one run of a coroutine from one      *)
(* await to the next; the answers of the remote platform, the background   *)
(* connection and the cancellation of a task are the environment.          *)
(***************************************************************************)
EXTENDS Integers, Sequences, FiniteSets, TLC

\* ---------------------------------------------------------------- bounds
MaxAccounts == 3    \* accounts in one batch call
MaxItems == 3       \* communities or users one session enumerates
MaxRetries == 2     \* transient answers to the profile fetch of one account
MaxCancels == 1     \* task cancellations by the environment in one run
MaxStops == 1       \* background connections that end on their own in one run
BatchItems == 1     \* MaxItems for the runs of a batch of several accounts
BatchRetries == 1   \* MaxRetries for the runs of a batch of several accounts
PairAccounts == 2   \* accounts in a batch whose accounts enumerate several items
PairItems == 2      \* MaxItems for the runs of such a batch

\* ------------------------------------------------------ program constants
PACING_DELAY == 10
\* verify_account pacing its retry like a leave.
RetryDelayAsPacing == PACING_DELAY
RETRY_DELAY == 90

VARIABLES
  op,             \* the batch operation called: "verify", "leave" or "unblock"
  accounts,       \* its argument: the list of accounts
  bpc,            \* the batch coroutine: "run", "returned" or "raised"
  tasks,          \* the tasks created so far, by account, in creation order
  bidx,           \* the index in tasks of the task awaited next
  good_accounts,  \* verify_all's result list
  bexc,           \* the exception the batch call ended with
  frames,         \* per account: the stack of active per-account calls
  sess,           \* per account: the clients constructed, one per call
  res,            \* per account: the state and outcome of its task
  items,          \* per account: the communities or users enumerated
  trace,          \* per account: what the task did, in order
  done,           \* the accounts whose task has ended, in the order they ended
  endlen,         \* per account: the length of its trace as the batch call ended
  ncancel,        \* cancellations so far
  nstop,          \* connections ended on their own so far
  cap             \* the bounds of this run: items, retries, cancels, stops

bvars == <<op, accounts, bpc, tasks, bidx, good_accounts, bexc, endlen, cap>>
avars == <<frames, sess, res, items, trace, done>>
evars == <<ncancel, nstop>>
vars == <<op, accounts, bpc, tasks, bidx, good_accounts, bexc,
          frames, sess, res, items, trace, done, endlen, ncancel, nstop, cap>>

Acc == 1..MaxAccounts
Ops == {"verify", "leave", "unblock"}

\* ------------------------------------------------------------ exceptions
\* The classes an exception of class cls is an instance of: discord.Forbidden
\* is a discord.HTTPException, both and LoginFailure are Exceptions;
\* asyncio.CancelledError is a BaseException only.
Bases(cls) ==
  CASE cls = "Forbidden" -> {"Forbidden", "HTTPException", "Exception", "BaseException"}
    [] cls = "HTTPException" -> {"HTTPException", "Exception", "BaseException"}
    [] cls = "LoginFailure" -> {"LoginFailure", "Exception", "BaseException"}
    [] cls = "Exception" -> {"Exception", "BaseException"}
    [] cls = "CancelledError" -> {"CancelledError", "BaseException"}

\* A handler: the class its except clause names and what its body does.
Handler(cls, do) == [cls |-> cls, do |-> do]

\* leave_all catching every Exception where it means to catch HTTP errors.
LeaveClausesBroad ==
  <<Handler("Exception", "warn"), Handler("Exception", "raise")>>

\* verify_account with its first two handlers in the other order.
VerifyClausesSwapped ==
  <<Handler("HTTPException", "retry"), Handler("Forbidden", "false"),
    Handler("Exception", "raise")>>

\* unblock_all with a handler of its own for the forbidden signal, ending
\* the loop as verify_account's ends the verification.
UnblockClausesForbiddenFatal ==
  <<Handler("Forbidden", "raise"), Handler("HTTPException", "warn"),
    Handler("Exception", "raise")>>

\* The except clauses of the three try statements, in source order.
VerifyClauses ==
  <<Handler("Forbidden", "false"), Handler("HTTPException", "retry"),
    Handler("Exception", "raise")>>
LeaveClauses ==
  <<Handler("HTTPException", "warn"), Handler("Exception", "raise")>>
UnblockClauses ==
  <<Handler("HTTPException", "warn"), Handler("Exception", "raise")>>

\* What the try statement does with an exception of class cls: the body of
\* the first except clause that catches it; "none" if no clause does.
FirstMatch(clauses, cls) ==
  LET hits == {k \in 1..Len(clauses) : clauses[k].cls \in Bases(cls)}
  IN IF hits = {} THEN "none"
     ELSE clauses[CHOOSE k \in hits : \A j \in hits : k <= j].do

\* ------------------------------------------------------------ values
Ev(e, i, r) == [e |-> e, i |-> i, r |-> r]
NoExc == [cls |-> "", acct |-> 0, at |-> 0]
\* An exception raised by account a's task; at is the place in a's trace of the
\* event that records it.
Exc(cls, a, at) == [cls |-> cls, acct |-> a, at |-> at]
NoRes == [k |-> "none", v |-> "", x |-> NoExc]
Pending == [k |-> "run", v |-> "", x |-> NoExc]
Ret(v) == [k |-> "ret", v |-> v, x |-> NoExc]
Raise(x) == [k |-> "exc", v |-> "", x |-> x]

NewSession == [closed |-> FALSE, conn |-> "none", ready |-> FALSE]
Frame(pc, i, pend) == [pc |-> pc, i |-> i, pend |-> pend]
Front(s) == SubSeq(s, 1, Len(s) - 1)
SetTop(fr, f) == [fr EXCEPT ![Len(fr)] = f]
Stay(fr) == [frames |-> fr, res |-> NoRes]

\* The remote answers: success or an exception class.
Answers == {"ok", "Forbidden", "HTTPException", "Exception"}

\* ------------------------------------------------------- session scope
\* A scope whose __aexit__ closes nothing: the call ends with the outcome of
\* its body and so does the call that awaits it.
AExitLeavingOpen(fr, ss, out) == [frames |-> <<>>, res |-> out]

RECURSIVE AExit(_, _, _)
\* _ClientContextManager.__aexit__ for the call on top of fr, whose body ended
\* with outcome out: close() is awaited when the client is not closed. With the
\* client closed already the call ends at once, and the call that awaits it
\* (a retrying verify_account) leaves its own scope with the same outcome.
AExit(fr, ss, out) ==
  IF fr = <<>> THEN [frames |-> <<>>, res |-> out]
  ELSE IF ~ss[Len(fr)].closed
    THEN [frames |-> SetTop(fr, Frame("close", fr[Len(fr)].i, out)), res |-> NoRes]
    ELSE AExit(Front(fr), ss, out)

\* An exception leaves __aenter__: the async with statement never runs
\* __aexit__ for this call; the awaiting call leaves its scope with it.
AEnterRaise(fr, ss, out) == AExit(Front(fr), ss, out)

\* The state of account a after one run of its task.
Upd(a, out, ss, tr) ==
  /\ frames' = [frames EXCEPT ![a] = out.frames]
  /\ res' = [res EXCEPT ![a] = IF out.res.k = "none" THEN @ ELSE out.res]
  /\ sess' = [sess EXCEPT ![a] = ss]
  /\ trace' = [trace EXCEPT ![a] = tr]
  /\ done' = IF out.res.k = "none" THEN done ELSE Append(done, a)

\* __init__ and __aenter__ to the first await: the client is constructed and
\* login is awaited.
AEnter(a, fr, ss, tr) ==
  Upd(a, Stay(Append(fr, Frame("login", 0, NoRes))), Append(ss, NewSession),
      tr \o <<Ev("construct", Len(fr) + 1, ""), Ev("login", Len(fr) + 1, "")>>)

\* The task of account a can run: it is created, not finished, and the batch
\* coroutine has reached its first await (all tasks are created by then).
Running(a) == res[a].k = "run" /\ Len(tasks) = Len(accounts)
Top(a) == frames[a][Len(frames[a])]
At(a, pc) == Running(a) /\ frames[a] # <<>> /\ Top(a).pc = pc

\* The task's first run: the per-account coroutine enters its session scope.
Start(a) ==
  /\ Running(a) /\ frames[a] = <<>>
  /\ AEnter(a, frames[a], sess[a], trace[a])
  /\ UNCHANGED <<items, bvars, evars>>

\* __aenter__ going on after a failed login as after a successful one.
ResumeLoginSwallow(a, r) ==
  LET fr == frames[a]
      d == Len(fr)
      tr == Append(trace[a], Ev("login_result", d, r))
  IN Upd(a, Stay(SetTop(fr, Frame("ready", 0, NoRes))),
         [sess[a] EXCEPT ![d].conn = "scheduled"],
         tr \o <<Ev("connect", d, ""), Ev("wait_ready", d, "")>>)

\* await self._client.login(token) answers r; on success the connection task
\* is created and wait_until_ready() is awaited.
ResumeLogin(a, r) ==
  LET fr == frames[a]
      d == Len(fr)
      tr == Append(trace[a], Ev("login_result", d, r))
  IN IF r = "ok"
     THEN Upd(a, Stay(SetTop(fr, Frame("ready", 0, NoRes))),
              [sess[a] EXCEPT ![d].conn = "scheduled"],
              tr \o <<Ev("connect", d, ""), Ev("wait_ready", d, "")>>)
     ELSE Upd(a, AEnterRaise(fr, sess[a], Raise(Exc(r, a, Len(tr)))), sess[a], tr)

Login(a) ==
  /\ At(a, "login")
  /\ \E r \in {"ok", "LoginFailure"} : ResumeLogin(a, r)
  /\ UNCHANGED <<items, bvars, evars>>

\* The background task client.connect() of client s of account a runs and the
\* platform's READY arrives: the ready signal is set.
Connect(a, s) ==
  /\ Len(tasks) = Len(accounts) /\ s \in 1..Len(sess[a])
  /\ sess[a][s].conn = "scheduled"
  /\ sess' = [sess EXCEPT ![a][s].conn = "running", ![a][s].ready = TRUE]
  /\ UNCHANGED <<frames, res, items, trace, done, bvars, evars>>

\* A scope that watches its connection task while it waits for ready: the
\* end of the connection is raised in the waiting task.
ConnectStopNotifying(a, s, c) ==
  /\ s \in 1..Len(sess[a])
  /\ sess[a][s].conn \in {"scheduled", "running"}
  /\ nstop < cap.stops
  /\ nstop' = nstop + 1
  /\ LET ss == [sess[a] EXCEPT ![s].conn = "stopped", ![s].closed = @ \/ c]
         tr == Append(trace[a], Ev("ready", s, "Exception"))
     IN IF At(a, "ready") /\ s = Len(frames[a]) /\ ~sess[a][s].ready
        THEN Upd(a, AEnterRaise(frames[a], ss, Raise(Exc("Exception", a, Len(tr)))), ss, tr)
        ELSE /\ sess' = [sess EXCEPT ![a] = ss]
             /\ UNCHANGED <<frames, res, trace, done>>
  /\ UNCHANGED <<items, bvars, ncancel>>

\* The background task ends on its own (the connection fails or is dropped);
\* the library may close the client as it does (c).
ConnectStop(a, s, c) ==
  /\ s \in 1..Len(sess[a])
  /\ sess[a][s].conn \in {"scheduled", "running"}
  /\ nstop < cap.stops
  /\ nstop' = nstop + 1
  /\ sess' = [sess EXCEPT ![a][s].conn = "stopped",
                          ![a][s].closed = sess[a][s].closed \/ c]
  /\ UNCHANGED <<frames, res, items, trace, done, bvars, ncancel>>

\* await self._client.close() ends: with r = "ok" the client is closed and the
\* call ends with the outcome its body had; cancelled, the call ends with the
\* cancellation and the client closed or not (c).
ResumeClose(a, r, c) ==
  LET fr == frames[a]
      d == Len(fr)
      tr == Append(trace[a], Ev("close", d, r))
      ss == [sess[a] EXCEPT ![d].closed = (r = "ok") \/ c,
                            ![d].conn = IF (r = "ok") \/ c THEN "stopped" ELSE @]
      out == IF r = "ok" THEN fr[d].pend ELSE Raise(Exc(r, a, Len(tr)))
  IN Upd(a, AExit(Front(fr), ss, out), ss, tr)

Close(a) ==
  /\ At(a, "close")
  /\ ResumeClose(a, "ok", TRUE)
  /\ UNCHANGED <<items, bvars, evars>>

\* ------------------------------------------------------- verify_account
\* wait_until_ready() returns and the body starts: the profile fetch is awaited.
VerifyReady(a) ==
  /\ op = "verify" /\ At(a, "ready") /\ sess[a][Len(frames[a])].ready
  /\ Upd(a, Stay(SetTop(frames[a], Frame("fetch", 0, NoRes))), sess[a],
         trace[a] \o <<Ev("ready", Len(frames[a]), "ok"), Ev("fetch", Len(frames[a]), "")>>)
  /\ UNCHANGED <<items, bvars, evars>>

\* verify_account with a bound on its retries: past it, the HTTP error is
\* raised to the caller.
ResumeFetchBounded(a, r) ==
  LET fr == frames[a]
      d == Len(fr)
      tr == Append(trace[a], Ev("fetch_result", d, r))
      h == IF r = "ok" THEN "else" ELSE FirstMatch(VerifyClauses, r)
  IN CASE r = "ok" ->
            Upd(a, AExit(fr, sess[a], Ret("True")), sess[a],
                Append(tr, Ev("log", d, "info")))
       [] h = "false" ->
            Upd(a, AExit(fr, sess[a], Ret("False")), sess[a],
                Append(tr, Ev("log", d, "error")))
       [] h = "retry" /\ d < cap.retries ->
            Upd(a, Stay(SetTop(fr, Frame("sleep90", 0, NoRes))), sess[a], tr)
       [] OTHER ->
            Upd(a, AExit(fr, sess[a], Raise(Exc(r, a, Len(tr)))), sess[a], tr)

\* await client.fetch_user_profile(id) answers r.
ResumeFetch(a, r) ==
  LET fr == frames[a]
      d == Len(fr)
      tr == Append(trace[a], Ev("fetch_result", d, r))
      h == IF r = "ok" THEN "else" ELSE FirstMatch(VerifyClauses, r)
  IN CASE r = "ok" ->
            Upd(a, AExit(fr, sess[a], Ret("True")), sess[a],
                Append(tr, Ev("log", d, "info")))
       [] h = "false" ->
            Upd(a, AExit(fr, sess[a], Ret("False")), sess[a],
                Append(tr, Ev("log", d, "error")))
       [] h = "retry" ->
            /\ d <= cap.retries
            /\ Upd(a, Stay(SetTop(fr, Frame("sleep90", 0, NoRes))), sess[a], tr)
       [] OTHER ->
            Upd(a, AExit(fr, sess[a], Raise(Exc(r, a, Len(tr)))), sess[a], tr)

Fetch(a) ==
  /\ At(a, "fetch")
  /\ \E r \in Answers : ResumeFetch(a, r)
  /\ UNCHANGED <<items, bvars, evars>>

\* await asyncio.sleep(90) ends: with r = "ok" verify_account is called again
\* from inside the handler, inside the scope of this call's client.
ResumeSleep90(a, r) ==
  LET fr == frames[a]
      d == Len(fr)
      tr == Append(trace[a], Ev("sleep", RETRY_DELAY, r))
  IN IF r = "ok"
     THEN AEnter(a, SetTop(fr, Frame("recurse", 0, NoRes)), sess[a], tr)
     ELSE Upd(a, AExit(fr, sess[a], Raise(Exc(r, a, Len(tr)))), sess[a], tr)

Sleep90(a) ==
  /\ At(a, "sleep90")
  /\ ResumeSleep90(a, "ok")
  /\ UNCHANGED <<items, bvars, evars>>

\* ------------------------------------------------------------ leave_all
\* The lists client.guilds can be: the communities, named by their place.
GuildLists(max) == {[i \in 1..n |-> i] : n \in 0..max}

\* leave_all starting the leaves of all the communities left together, as
\* tasks, and awaiting the last one only.
LeaveFromTogether(a, fr, i, gs, tr) ==
  IF i > Len(gs)
  THEN Upd(a, AExit(fr, sess[a], Ret("None")), sess[a], tr)
  ELSE Upd(a, Stay(SetTop(fr, Frame("leave", Len(gs), NoRes))), sess[a],
           tr \o [k \in 1..(Len(gs) - i + 1) |-> Ev("leave", i + k - 1, "")])

\* The for loop of leave_all from community i on: guild.leave() is awaited for
\* it, or the loop and the body are over.
LeaveFrom(a, fr, i, gs, tr) ==
  IF i > Len(gs)
  THEN Upd(a, AExit(fr, sess[a], Ret("None")), sess[a], tr)
  ELSE Upd(a, Stay(SetTop(fr, Frame("leave", i, NoRes))), sess[a],
           Append(tr, Ev("leave", i, "")))

\* leave_all entered by a scope that does not await wait_until_ready().
LeaveAllUnready(a) ==
  /\ op = "leave" /\ At(a, "ready")
  /\ \E gs \in GuildLists(cap.items) :
       /\ items' = [items EXCEPT ![a] = gs]
       /\ LeaveFrom(a, frames[a], 1, gs,
                    trace[a] \o <<Ev("ready", 1, "ok"), Ev("guilds", Len(gs), "")>>)
  /\ UNCHANGED <<bvars, evars>>

\* wait_until_ready() returns and the body starts: client.guilds is read.
LeaveAllReady(a) ==
  /\ op = "leave" /\ At(a, "ready") /\ sess[a][Len(frames[a])].ready
  /\ \E gs \in GuildLists(cap.items) :
       /\ items' = [items EXCEPT ![a] = gs]
       /\ LeaveFrom(a, frames[a], 1, gs,
                    trace[a] \o <<Ev("ready", 1, "ok"), Ev("guilds", Len(gs), "")>>)
  /\ UNCHANGED <<bvars, evars>>

\* leave_all with its pacing sleep after the try statement, not in a finally
\* clause: the continue of the HTTP-error handler goes past it.
ResumeLeaveUnpaced(a, r) ==
  LET fr == frames[a]
      i == fr[Len(fr)].i
      tr == Append(trace[a], Ev("leave_result", i, r))
      h == IF r = "ok" THEN "else" ELSE FirstMatch(LeaveClauses, r)
  IN CASE r = "ok" ->
            Upd(a, Stay(SetTop(fr, Frame("leave_sleep", i, NoRes))), sess[a],
                Append(tr, Ev("log", i, "info")))
       [] h = "warn" ->
            LeaveFrom(a, fr, i + 1, items[a], Append(tr, Ev("log", i, "warning")))
       [] OTHER ->
            Upd(a, AExit(fr, sess[a], Raise(Exc(r, a, Len(tr)))), sess[a], tr)

\* await guild.leave() answers r for community Top(a).i; every path goes
\* through the finally clause, which awaits the pacing sleep.
ResumeLeave(a, r) ==
  LET fr == frames[a]
      i == fr[Len(fr)].i
      tr == Append(trace[a], Ev("leave_result", i, r))
      h == IF r = "ok" THEN "else" ELSE FirstMatch(LeaveClauses, r)
  IN CASE r = "ok" ->
            Upd(a, Stay(SetTop(fr, Frame("leave_sleep", i, NoRes))), sess[a],
                Append(tr, Ev("log", i, "info")))
       [] h = "warn" ->
            Upd(a, Stay(SetTop(fr, Frame("leave_sleep", i, NoRes))), sess[a],
                Append(tr, Ev("log", i, "warning")))
       [] OTHER ->
            Upd(a, Stay(SetTop(fr, Frame("leave_sleep", i, Raise(Exc(r, a, Len(tr)))))),
                sess[a], tr)

Leave(a) ==
  /\ At(a, "leave")
  /\ \E r \in Answers : ResumeLeave(a, r)
  /\ UNCHANGED <<items, bvars, evars>>

\* The finally clause's await asyncio.sleep(10) ends: a pending exception goes
\* on to the scope exit, otherwise the loop goes on; cancelled, the
\* cancellation takes the place of what was pending.
ResumeLeaveSleep(a, r) ==
  LET fr == frames[a]
      f == fr[Len(fr)]
      tr == Append(trace[a], Ev("sleep", PACING_DELAY, r))
  IN CASE r # "ok" -> Upd(a, AExit(fr, sess[a], Raise(Exc(r, a, Len(tr)))), sess[a], tr)
       [] r = "ok" /\ f.pend.k = "exc" -> Upd(a, AExit(fr, sess[a], f.pend), sess[a], tr)
       [] OTHER -> LeaveFrom(a, fr, f.i + 1, items[a], tr)

LeaveSleep(a) ==
  /\ At(a, "leave_sleep")
  /\ ResumeLeaveSleep(a, "ok")
  /\ UNCHANGED <<items, bvars, evars>>

\* ---------------------------------------------------------- unblock_all
\* A user of client.users: own, it has the account's own id; obj, it is the
\* very object client.user; blocked, what is_blocked() answers.
UserKinds ==
  {u \in [own : BOOLEAN, obj : BOOLEAN, blocked : BOOLEAN] :
     /\ u.obj => u.own
     /\ u.obj => ~u.blocked}

\* The lists client.users can be: the values of a table keyed by user id, so
\* at most one entry has the account's own id.
UserLists(max) ==
  {us \in UNION {[1..n -> UserKinds] : n \in 0..max} :
     Cardinality({j \in 1..Len(us) : us[j].own}) <= 1}

\* The test "user is client.user" of the for loop.
IsClientUser(u) == u.obj

\* The place, from i on, of the first user the loop does not pass over: not
\* client.user, and blocked; Len(us) + 1 if there is none.
NextUser(us, i) ==
  LET todo == {j \in i..Len(us) : ~IsClientUser(us[j]) /\ us[j].blocked}
  IN IF todo = {} THEN Len(us) + 1 ELSE CHOOSE j \in todo : \A k \in todo : j <= k

\* unblock_all with its try statement around the test of is_blocked(), not
\* inside it: the finally clause paces the users that are not blocked too.
RECURSIVE UnblockFromPacingAll(_, _, _, _, _)
UnblockFromPacingAll(a, fr, i, us, tr) ==
  IF i > Len(us)
  THEN Upd(a, AExit(fr, sess[a], Ret("None")), sess[a], tr)
  ELSE IF IsClientUser(us[i])
    THEN UnblockFromPacingAll(a, fr, i + 1, us, tr)
    ELSE IF us[i].blocked
      THEN Upd(a, Stay(SetTop(fr, Frame("unblock", i, NoRes))), sess[a],
               Append(tr, Ev("unblock", i, "")))
      ELSE Upd(a, Stay(SetTop(fr, Frame("unblock_sleep", i, NoRes))), sess[a], tr)

\* The for loop of unblock_all from user i on.
UnblockFrom(a, fr, i, us, tr) ==
  LET j == NextUser(us, i)
  IN IF j > Len(us)
     THEN Upd(a, AExit(fr, sess[a], Ret("None")), sess[a], tr)
     ELSE Upd(a, Stay(SetTop(fr, Frame("unblock", j, NoRes))), sess[a],
              Append(tr, Ev("unblock", j, "")))

\* wait_until_ready() returns and the body starts: client.users is read.
UnblockAllReady(a) ==
  /\ op = "unblock" /\ At(a, "ready") /\ sess[a][Len(frames[a])].ready
  /\ \E us \in UserLists(cap.items) :
       /\ items' = [items EXCEPT ![a] = us]
       /\ UnblockFrom(a, frames[a], 1, us,
                      trace[a] \o <<Ev("ready", 1, "ok"), Ev("users", Len(us), "")>>)
  /\ UNCHANGED <<bvars, evars>>

\* unblock_all pacing at the top of the next iteration, not in a finally
\* clause: a failure that is raised leaves the loop with no delay.
ResumeUnblockRaiseUnpaced(a, r) ==
  LET fr == frames[a]
      i == fr[Len(fr)].i
      tr == Append(trace[a], Ev("unblock_result", i, r))
      h == IF r = "ok" THEN "else" ELSE FirstMatch(UnblockClauses, r)
  IN CASE r = "ok" ->
            Upd(a, Stay(SetTop(fr, Frame("unblock_sleep", i, NoRes))), sess[a],
                Append(tr, Ev("log", i, "info")))
       [] h = "warn" ->
            Upd(a, Stay(SetTop(fr, Frame("unblock_sleep", i, NoRes))), sess[a],
                Append(tr, Ev("log", i, "warning")))
       [] OTHER ->
            Upd(a, AExit(fr, sess[a], Raise(Exc(r, a, Len(tr)))), sess[a], tr)

\* await user.unblock() answers r for user Top(a).i.
ResumeUnblock(a, r) ==
  LET fr == frames[a]
      i == fr[Len(fr)].i
      tr == Append(trace[a], Ev("unblock_result", i, r))
      h == IF r = "ok" THEN "else" ELSE FirstMatch(UnblockClauses, r)
  IN CASE r = "ok" ->
            Upd(a, Stay(SetTop(fr, Frame("unblock_sleep", i, NoRes))), sess[a],
                Append(tr, Ev("log", i, "info")))
       [] h = "warn" ->
            Upd(a, Stay(SetTop(fr, Frame("unblock_sleep", i, NoRes))), sess[a],
                Append(tr, Ev("log", i, "warning")))
       [] OTHER ->
            Upd(a, Stay(SetTop(fr, Frame("unblock_sleep", i, Raise(Exc(r, a, Len(tr)))))),
                sess[a], tr)

Unblock(a) ==
  /\ At(a, "unblock")
  /\ \E r \in Answers : ResumeUnblock(a, r)
  /\ UNCHANGED <<items, bvars, evars>>

\* The finally clause's await asyncio.sleep(10) of unblock_all ends.
ResumeUnblockSleep(a, r) ==
  LET fr == frames[a]
      f == fr[Len(fr)]
      tr == Append(trace[a], Ev("sleep", PACING_DELAY, r))
  IN CASE r # "ok" -> Upd(a, AExit(fr, sess[a], Raise(Exc(r, a, Len(tr)))), sess[a], tr)
       [] r = "ok" /\ f.pend.k = "exc" -> Upd(a, AExit(fr, sess[a], f.pend), sess[a], tr)
       [] OTHER -> UnblockFrom(a, fr, f.i + 1, items[a], tr)

UnblockSleep(a) ==
  /\ At(a, "unblock_sleep")
  /\ ResumeUnblockSleep(a, "ok")
  /\ UNCHANGED <<items, bvars, evars>>

\* --------------------------------------------------------- cancellation
\* wait_until_ready() is cancelled: the exception leaves __aenter__.
ResumeReady(a, r) ==
  LET tr == Append(trace[a], Ev("ready", Len(frames[a]), r))
  IN Upd(a, AEnterRaise(frames[a], sess[a], Raise(Exc(r, a, Len(tr)))), sess[a], tr)

\* asyncio raises exception r (a CancelledError) in the task of account a at
\* the await it is suspended in.
Throw(a, r) ==
  LET pc == Top(a).pc
  IN CASE pc = "login" -> ResumeLogin(a, r)
       [] pc = "ready" -> ResumeReady(a, r)
       [] pc = "fetch" -> ResumeFetch(a, r)
       [] pc = "sleep90" -> ResumeSleep90(a, r)
       [] pc = "leave" -> ResumeLeave(a, r)
       [] pc = "leave_sleep" -> ResumeLeaveSleep(a, r)
       [] pc = "unblock" -> ResumeUnblock(a, r)
       [] pc = "unblock_sleep" -> ResumeUnblockSleep(a, r)
       [] pc = "close" -> \E c \in BOOLEAN : ResumeClose(a, r, c)

\* The environment cancels the task of account a (Task.cancel()): a task that
\* never ran ends cancelled without running; a suspended one is resumed with
\* CancelledError at its await.
Cancel(a) ==
  /\ Running(a) /\ ncancel < cap.cancels
  /\ ncancel' = ncancel + 1
  /\ IF frames[a] = <<>>
     THEN LET tr == Append(trace[a], Ev("cancelled", 0, "CancelledError"))
          IN Upd(a, [frames |-> <<>>, res |-> Raise(Exc("CancelledError", a, Len(tr)))],
                 sess[a], tr)
     ELSE Throw(a, "CancelledError")
  /\ UNCHANGED <<items, bvars, nstop>>

\* ------------------------------------------------------ batch operations
\* The first for loop of a batch operation: loop.create_task for the next
\* account of the list.
CreateTask(fn) ==
  /\ op = fn /\ bpc = "run" /\ Len(tasks) < Len(accounts)
  /\ LET a == accounts[Len(tasks) + 1]
     IN /\ tasks' = Append(tasks, a)
        /\ res' = [res EXCEPT ![a] = Pending]
  /\ UNCHANGED <<op, accounts, bpc, bidx, good_accounts, bexc, endlen, cap,
                 frames, sess, items, trace, done, evars>>

\* Every task the batch has not awaited yet, as a loop over the tasks in the
\* order they end would await them.
AwaitableAsCompleted == bidx..Len(tasks)

\* "for task in tasks: await task": the places in tasks of the task the loop
\* awaits now.
Awaitable == {bidx}

\* A test that leaves out the await: a task object is always true.
CollectsTask(collect, r) == collect

\* "if await task" in verify_all: whether result r puts the account on
\* good_accounts (collect is false in the other two batch operations).
Collects(collect, r) == collect /\ r.v = "True"

\* A batch that cancels what it has launched before it raises.
CancelSiblings ==
  /\ res' = [b \in Acc |-> IF res[b].k = "run"
                             THEN Raise(Exc("CancelledError", b, 0)) ELSE res[b]]
  /\ frames' = [b \in Acc |-> <<>>]
  /\ UNCHANGED <<sess, items, trace, done>>

\* What the raising await does to the other tasks: nothing, no handler or
\* cancel surrounds it; they stay scheduled on the loop.
LeaveSiblings == UNCHANGED avars

\* The second for loop: await the task at bidx, which has finished. Its
\* exception ends the batch call; collect says whether a true result puts the
\* account on good_accounts. After the last task the call returns.
AwaitTask(fn, collect) ==
  /\ op = fn /\ bpc = "run" /\ Len(tasks) = Len(accounts)
  /\ IF bidx > Len(tasks)
     THEN /\ bpc' = "returned"
          /\ UNCHANGED <<bidx, good_accounts, bexc, avars>>
     ELSE \E i \in Awaitable :
          LET a == tasks[i]
          IN /\ res[a].k \in {"ret", "exc"}
             /\ IF res[a].k = "exc"
                THEN /\ bpc' = "raised"
                     /\ bexc' = res[a].x
                     /\ LeaveSiblings
                     /\ UNCHANGED <<bidx, good_accounts>>
                ELSE /\ bidx' = bidx + 1
                     /\ good_accounts' = IF Collects(collect, res[a])
                                         THEN Append(good_accounts, a)
                                         ELSE good_accounts
                     /\ bpc' = IF bidx = Len(tasks) THEN "returned" ELSE "run"
                     /\ UNCHANGED <<bexc, avars>>
  /\ endlen' = IF bpc' = "run" THEN endlen ELSE [a \in Acc |-> Len(trace[a])]
  /\ UNCHANGED <<op, accounts, tasks, cap, evars>>

verify_all_create == CreateTask("verify")
verify_all_await == AwaitTask("verify", TRUE)
leave_all_as_all_create == CreateTask("leave")
leave_all_as_all_await == AwaitTask("leave", FALSE)
unblock_all_as_all_create == CreateTask("unblock")
unblock_all_as_all_await == AwaitTask("unblock", FALSE)

\* ------------------------------------------------------- specification
AccountLists(min, max) == {[i \in 1..n |-> i] : n \in min..max}

\* The state as a batch operation is called on the list accs.
Called(fn, accs) ==
  /\ op = fn
  /\ accounts = accs
  /\ bpc = "run"
  /\ tasks = <<>>
  /\ bidx = 1
  /\ good_accounts = <<>>
  /\ bexc = NoExc
  /\ frames = [a \in Acc |-> <<>>]
  /\ sess = [a \in Acc |-> <<>>]
  /\ res = [a \in Acc |-> NoRes]
  /\ items = [a \in Acc |-> <<>>]
  /\ trace = [a \in Acc |-> <<>>]
  /\ done = <<>>
  /\ endlen = [a \in Acc |-> 0]
  /\ ncancel = 0
  /\ nstop = 0

\* One account: the per-account operations in full.
Init ==
  /\ \E fn \in Ops : \E accs \in AccountLists(0, 1) : Called(fn, accs)
  /\ cap = [items |-> MaxItems, retries |-> MaxRetries,
            cancels |-> MaxCancels, stops |-> MaxStops]

\* Several accounts: the batch operations, each account with short lists.
InitBatch ==
  /\ \E fn \in Ops : \E accs \in AccountLists(0, MaxAccounts) : Called(fn, accs)
  /\ cap = [items |-> BatchItems, retries |-> BatchRetries,
            cancels |-> 0, stops |-> 0]

\* Two accounts at most, each with lists of several items.
InitPair ==
  /\ \E fn \in Ops : \E accs \in AccountLists(0, PairAccounts) : Called(fn, accs)
  /\ cap = [items |-> PairItems, retries |-> BatchRetries,
            cancels |-> 0, stops |-> 0]

\* The steps of the program: the batch coroutine and the tasks, with the
\* answers of the platform.
Program ==
  \/ verify_all_create
  \/ verify_all_await
  \/ leave_all_as_all_create
  \/ leave_all_as_all_await
  \/ unblock_all_as_all_create
  \/ unblock_all_as_all_await
  \/ \E a \in Acc : Start(a)
  \/ \E a \in Acc : Login(a)
  \/ \E a \in Acc : \E s \in 1..(MaxRetries + 1) : Connect(a, s)
  \/ \E a \in Acc : Close(a)
  \/ \E a \in Acc : VerifyReady(a)
  \/ \E a \in Acc : Fetch(a)
  \/ \E a \in Acc : Sleep90(a)
  \/ \E a \in Acc : LeaveAllReady(a)
  \/ \E a \in Acc : Leave(a)
  \/ \E a \in Acc : LeaveSleep(a)
  \/ \E a \in Acc : UnblockAllReady(a)
  \/ \E a \in Acc : Unblock(a)
  \/ \E a \in Acc : UnblockSleep(a)

\* The steps of the environment that disturb a task: its connection ends, or
\* the task is cancelled.
Disturb ==
  \/ \E a \in Acc : \E s \in 1..(MaxRetries + 1) : \E c \in BOOLEAN : ConnectStop(a, s, c)
  \/ \E a \in Acc : Cancel(a)

Next == Program \/ Disturb

\* One account, disturbed or not.
Spec == Init /\ [][Next]_vars
\* A batch of accounts, undisturbed.
SpecBatch == InitBatch /\ [][Program]_vars
\* A batch of two accounts with longer lists, undisturbed.
SpecPair == InitPair /\ [][Program]_vars
\* One account, disturbed or not, on an event loop that runs what can run
\* and a platform that answers every call: a step of the program that stays
\* possible is taken.
SpecFair == Init /\ [][Next]_vars /\ WF_vars(Program)

\* ------------------------------------------------------ reading a trace
Finished(a) == res[a].k \in {"ret", "exc"}
\* The places of a's trace holding an event of kind e.
Places(a, e) == {j \in 1..Len(trace[a]) : trace[a][j].e = e}
\* The places holding an event of kind e with result r.
PlacesR(a, e, r) == {j \in Places(a, e) : trace[a][j].r = r}
\* The task of account a was cancelled (at or after place j of its trace).
CancelledAfter(a, j) ==
  \E k \in (j + 1)..Len(trace[a]) : trace[a][k].r = "CancelledError"
Cancelled(a) == CancelledAfter(a, 0)
\* The events of kind e of a's trace, in order.
Only(a, e) == SelectSeq(trace[a], LAMBDA ev : ev.e = e)
\* The answers of a's remote calls of kind e, in order.
RECURSIVE Results(_)
Results(evs) == IF evs = <<>> THEN <<>> ELSE <<evs[1].r>> \o Results(Tail(evs))
\* The item each event of evs is about, in order.
RECURSIVE Indices(_)
Indices(evs) == IF evs = <<>> THEN <<>> ELSE <<evs[1].i>> \o Indices(Tail(evs))
\* The time account a's task has slept: the sum of its completed sleeps.
RECURSIVE Slept(_)
Slept(tr) ==
  IF tr = <<>> THEN 0
  ELSE (IF tr[1].e = "sleep" /\ tr[1].r = "ok" THEN tr[1].i ELSE 0) + Slept(Tail(tr))
\* An answer that is an HTTP error, the forbidden signal included.
IsHTTPError(r) == r # "ok" /\ "HTTPException" \in Bases(r)
\* An answer that is a transient signal: an HTTP error other than forbidden.
IsTransient(r) == r = "HTTPException"

\* ------------------------------------------------------------------ C1
\* C1: whenever a per-account operation has exited (returned or raised,
\* whatever the path), every client it constructed is closed.
C1_SessionsClosedOnExit ==
  \A a \in Acc : Finished(a) =>
    \A s \in 1..Len(sess[a]) : sess[a][s].closed

\* ------------------------------------------------------------------ C2
\* C2: if the first profile fetch of an account answers forbidden, then
\* verify_account logs one error, fetches once over one session, never sleeps,
\* and (unless its task is cancelled) returns False; and every forbidden
\* answer, first or not, is followed at once by the error log, never by the
\* sleep and retry of the HTTP-error handler.
C2_ForbiddenIsFalseNoRetry ==
  \A a \in Acc : op = "verify" =>
    /\ \A j \in PlacesR(a, "fetch_result", "Forbidden") :
         /\ Len(trace[a]) > j
         /\ trace[a][j + 1] = Ev("log", trace[a][j].i, "error")
         /\ \A k \in (j + 1)..Len(trace[a]) :
              trace[a][k].e \notin {"sleep", "construct", "login", "fetch"}
         /\ (Finished(a) /\ ~CancelledAfter(a, j)) => res[a] = Ret("False")
    /\ (Only(a, "fetch_result") # <<>> /\ Only(a, "fetch_result")[1].r = "Forbidden") =>
         /\ Cardinality(PlacesR(a, "log", "error")) = 1
         /\ Cardinality(Places(a, "construct")) = 1
         /\ Cardinality(Places(a, "fetch")) = 1
         /\ Places(a, "sleep") = {}

C2_Witness ==
  \E a \in Acc :
    /\ op = "verify" /\ res[a] = Ret("False")
    /\ Results(Only(a, "fetch_result")) = <<"Forbidden">>
    /\ sess[a][1].closed

\* ------------------------------------------------------------------ C3
\* C3: if the profile fetches of an account answered k transient signals and
\* then succeeded, verify_account (not cancelled) has returned True once it
\* has ended, after k + 1 fetches over k + 1 sessions, the k retries each
\* started by the end of one 90-unit sleep, so having slept 90 * k units in
\* all; with k = 0, no sleep at all.
C3_TransientThenSuccess ==
  \A a \in Acc :
    LET rs == Results(Only(a, "fetch_result"))
        k == Len(rs) - 1
    IN (/\ op = "verify" /\ rs # <<>> /\ rs[Len(rs)] = "ok"
        /\ \A j \in 1..k : IsTransient(rs[j])
        /\ ~Cancelled(a))
       => /\ Cardinality(Places(a, "fetch")) = k + 1
          /\ Cardinality(Places(a, "construct")) = k + 1
          /\ Cardinality(PlacesR(a, "sleep", "ok")) = k
          /\ Slept(trace[a]) >= 90 * k
          /\ \A j \in Places(a, "construct") :
               j > 1 => trace[a][j - 1] = Ev("sleep", 90, "ok")
          /\ Finished(a) => res[a] = Ret("True")

C3_Witness ==
  \E a \in Acc :
    /\ op = "verify" /\ res[a] = Ret("True") /\ ~Cancelled(a)
    /\ Results(Only(a, "fetch_result")) = <<"HTTPException", "HTTPException", "ok">>
    /\ Slept(trace[a]) = 180

\* ------------------------------------------------------------------ C4
\* C4: when verify_all returns, its result is the accounts of the input list
\* whose verify_account returned True, in input order, whatever the order in
\* which the tasks ended.
C4_GoodAccountsInInputOrder ==
  (op = "verify" /\ bpc = "returned") =>
    /\ \A a \in Acc : (\E i \in 1..Len(accounts) : accounts[i] = a) => res[a].k = "ret"
    /\ good_accounts = SelectSeq(accounts, LAMBDA a : res[a] = Ret("True"))

C4_Witness ==
  /\ op = "verify" /\ bpc = "returned"
  /\ accounts = <<1, 2, 3>>
  /\ res[2] = Ret("False")
  /\ good_accounts = <<1, 3>>
  /\ done = <<3, 2, 1>>

\* ------------------------------------------------------------------ C5
\* C5: in leave_all, while every leave so far succeeded or failed with an HTTP
\* error (and the task is not cancelled), the leaves attempted are the
\* communities 1, 2, ... in enumeration order, each once; and once the
\* operation has ended it has returned normally, having attempted every
\* community, logged one warning per failure and one info per success, and
\* slept 10 units once per community.
C5_LeaveAllContinuesPastHTTPErrors ==
  \A a \in Acc :
    LET rs == Results(Only(a, "leave_result"))
        tried == Indices(Only(a, "leave"))
        n == Len(items[a])
    IN (/\ op = "leave" /\ Places(a, "guilds") # {}
        /\ \A j \in 1..Len(rs) : rs[j] = "ok" \/ IsHTTPError(rs[j])
        /\ ~Cancelled(a))
       => /\ tried = [j \in 1..Len(tried) |-> j]
          /\ Len(tried) <= n
          /\ Cardinality(PlacesR(a, "log", "warning"))
               = Cardinality({j \in 1..Len(rs) : IsHTTPError(rs[j])})
          /\ Cardinality(PlacesR(a, "log", "info"))
               = Cardinality({j \in 1..Len(rs) : rs[j] = "ok"})
          /\ \A j \in Places(a, "sleep") : trace[a][j] = Ev("sleep", 10, "ok")
          /\ Finished(a) =>
               /\ res[a] = Ret("None")
               /\ Len(tried) = n /\ Len(rs) = n
               /\ Cardinality(Places(a, "sleep")) = n
               /\ Slept(trace[a]) = 10 * n

C5_Witness ==
  \E a \in Acc :
    /\ op = "leave" /\ res[a] = Ret("None") /\ ~Cancelled(a)
    /\ Results(Only(a, "leave_result")) = <<"ok", "HTTPException", "ok">>
    /\ Cardinality(PlacesR(a, "log", "warning")) = 1
    /\ Cardinality(Places(a, "sleep")) = 3

\* ------------------------------------------------------------------ C6
\* C6: in leave_all, once the leave of community i has failed with an
\* unclassified failure, the communities attempted are 1..i, each once, none
\* after i is ever attempted, and (unless the task is cancelled while the
\* failure is on its way out) the operation ends by raising that very failure.
C6_UnclassifiedAbortsLeaveAll ==
  \A a \in Acc : op = "leave" =>
    \A j \in PlacesR(a, "leave_result", "Exception") :
      LET i == trace[a][j].i
      IN /\ Indices(Only(a, "leave")) = [m \in 1..i |-> m]
         /\ (Finished(a) /\ ~CancelledAfter(a, j)) =>
              res[a] = Raise(Exc("Exception", a, j))

C6_Witness ==
  \E a \in Acc :
    /\ op = "leave" /\ res[a].k = "exc" /\ res[a].x.cls = "Exception"
    /\ Len(items[a]) = 3
    /\ Results(Only(a, "leave_result")) = <<"ok", "Exception">>

\* ------------------------------------------------------------------ C7
\* C7: unblock_all never attempts an unblock on a user with the account's
\* own id, nor on a user for which is_blocked() is false; the users attempted
\* are, each once and in order, the other users the loop has reached.
C7_NeverUnblocksSelfOrUnblocked ==
  \A a \in Acc : op = "unblock" =>
    LET tried == Indices(Only(a, "unblock"))
    IN /\ \A m \in 1..Len(tried) :
            /\ ~items[a][tried[m]].own
            /\ items[a][tried[m]].blocked
       /\ \A m \in 1..(Len(tried) - 1) : tried[m] < tried[m + 1]
       /\ \A u \in 1..Len(items[a]) :
            (Len(tried) > 0 /\ u < tried[Len(tried)]
               /\ ~items[a][u].own /\ items[a][u].blocked)
            => \E m \in 1..Len(tried) : tried[m] = u

\* ------------------------------------------------------------------ C8
\* C8: a batch operation creates its tasks in list order, one per account,
\* and all of them before any task runs or is awaited; it awaits them in that
\* order; and when it raises, the failure it raises is that of the failed
\* task that comes first in the list, whichever task failed first in time.
C8_LaunchAllAwaitInOrder ==
  /\ tasks = SubSeq(accounts, 1, Len(tasks))
  /\ (bidx > 1 \/ bpc # "run" \/ \E a \in Acc : trace[a] # <<>>) => tasks = accounts
  /\ \A i \in 1..Len(tasks) : i < bidx => res[tasks[i]].k = "ret"
  /\ bpc = "returned" => bidx = Len(tasks) + 1
  /\ bpc = "raised" =>
       LET failed == {i \in 1..Len(tasks) : res[tasks[i]].k = "exc"}
       IN /\ bidx \in failed
          /\ \A i \in failed : bidx <= i
          /\ bexc = res[tasks[bidx]].x
          /\ bexc.acct = accounts[bidx]

C8_Witness ==
  /\ bpc = "raised" /\ accounts = <<1, 2, 3>>
  /\ res[1].k = "exc" /\ res[3].k = "exc"
  /\ done # <<>> /\ done[1] = 3
  /\ trace[2] # <<>>
  /\ bexc = res[1].x /\ bexc.acct = 1

\* ------------------------------------------------------------------ C9
\* C9: the step by which a batch operation raises changes nothing of any
\* task: none is cancelled; and after it a task suspended in a remote call
\* can still complete that call.
C9_SiblingsKeepRunning ==
  /\ [][(bpc = "run" /\ bpc' = "raised") =>
          (frames' = frames /\ res' = res /\ sess' = sess /\ trace' = trace)]_vars
  /\ [](bpc = "raised" =>
          \A a \in Acc :
            (res[a].k = "run" /\ frames[a] # <<>>
               /\ Top(a).pc \in {"fetch", "leave", "unblock"})
            => ENABLED (Fetch(a) \/ Leave(a) \/ Unblock(a)))

\* The batch call has ended with an error; a task of another account is
\* still running, its session open and connected, and it has begun a remote
\* call since the batch call ended.
C9_Witness ==
  /\ bpc = "raised"
  /\ \E a \in Acc :
       /\ res[a].k = "run" /\ a # bexc.acct
       /\ \E s \in 1..Len(sess[a]) : ~sess[a][s].closed /\ sess[a][s].conn = "running"
       /\ \E j \in (endlen[a] + 1)..Len(trace[a]) :
            trace[a][j].e \in {"fetch", "leave", "unblock"}

\* ----------------------------------------------------------------- C10
\* C10: once the login of a client has failed, that client's connection task
\* is never created and its ready-wait never entered, the account's task does
\* nothing more than close the clients of the calls it is retrying for (no
\* login, no remote action), and the operation ends (at once when it is no
\* retry) by raising that very failure, unless cancelled on the way out.
C10_LoginFailurePropagates ==
  \A a \in Acc :
    \A j \in {p \in Places(a, "login_result") : trace[a][p].r # "ok"} :
      LET d == trace[a][j].i
      IN /\ sess[a][d].conn = "none" /\ ~sess[a][d].ready
         /\ Len(frames[a]) < d
         /\ \A k \in Places(a, "connect") \cup Places(a, "wait_ready") : trace[a][k].i # d
         /\ \A k \in (j + 1)..Len(trace[a]) : trace[a][k].e = "close"
         /\ (trace[a][j].r = "LoginFailure" /\ d = 1) => Finished(a)
         /\ (trace[a][j].r = "LoginFailure" /\ Finished(a) /\ ~CancelledAfter(a, j))
              => res[a] = Raise(Exc("LoginFailure", a, j))

C10_Witness ==
  \E a \in Acc :
    /\ res[a].k = "exc" /\ res[a].x.cls = "LoginFailure"
    /\ Len(sess[a]) = 2 /\ sess[a][2].conn = "none"
    /\ Places(a, "fetch") # {}

\* ----------------------------------------------------------------- C11
\* The events of a trace that belong to the life of a session, and the stage
\* of that life each is: 1 construct, 2 login, 3 the login's answer, 4 the
\* connection task created, 5 the ready-wait entered, 6 the ready-wait over,
\* 7 a remote action or an enumeration, 8 the close of the scope exit.
Stage(e) ==
  CASE e = "construct" -> 1
    [] e = "login" -> 2
    [] e = "login_result" -> 3
    [] e = "connect" -> 4
    [] e = "wait_ready" -> 5
    [] e = "ready" -> 6
    [] e \in {"fetch", "fetch_result", "guilds", "users", "leave", "leave_result",
              "unblock", "unblock_result"} -> 7
    [] e = "close" -> 8
    [] OTHER -> 0
\* The session the event at place j of a's trace is about: verify_account
\* records the session with every event, leave_all and unblock_all have one.
SessionAt(a, j) ==
  IF op = "verify" \/ Stage(trace[a][j].e) # 7 THEN trace[a][j].i ELSE 1
\* The places of a's trace holding an event of stage n of session d.
StagePlaces(a, d, n) ==
  {j \in 1..Len(trace[a]) : Stage(trace[a][j].e) = n /\ SessionAt(a, j) = d}

\* The stages of the events of session d in a's trace, in order.
StagesOf(a, d) ==
  LET ps == SelectSeq([j \in 1..Len(trace[a]) |-> j],
                      LAMBDA j : Stage(trace[a][j].e) > 0 /\ SessionAt(a, j) = d)
  IN [m \in 1..Len(ps) |-> Stage(trace[a][ps[m]].e)]

\* C11: the events of every session come in the order construct, login,
\* connection task created, ready observed, remote actions and enumerations,
\* close, each stage but the remote actions once at most and none without
\* the stage before it; a remote action or an enumeration is recorded only
\* with the session's ready signal set and observed, and none after the
\* close of the scope exit.
C11_SessionLifecycleOrder ==
  \A a \in Acc : \A d \in 1..Len(sess[a]) :
    /\ LET st == StagesOf(a, d)
       IN \A m \in 1..(Len(st) - 1) :
            /\ st[m] <= st[m + 1]
            /\ st[m] = st[m + 1] => st[m] = 7
    /\ \A n \in 2..6 : StagePlaces(a, d, n) # {} => StagePlaces(a, d, n - 1) # {}
    /\ \A n \in {7, 8} : StagePlaces(a, d, n) # {} =>
         /\ \E j \in StagePlaces(a, d, 6) : trace[a][j].r = "ok"
         /\ sess[a][d].ready
    /\ \A j \in StagePlaces(a, d, 4) :
         \E k \in StagePlaces(a, d, 3) : trace[a][k].r = "ok"

\* leave_all went through the whole life of its session: two communities
\* left between the ready signal and the close.
C11_Witness ==
  \E a \in Acc :
    /\ op = "leave" /\ res[a] = Ret("None")
    /\ Len(Only(a, "leave_result")) = 2
    /\ StagePlaces(a, 1, 8) # {} /\ sess[a][1].closed

\* ----------------------------------------------------------------- C12
\* The places of a's trace where a leave or an unblock answered with a
\* failure of class cls.
FailedItem(a, cls) ==
  PlacesR(a, "leave_result", cls) \cup PlacesR(a, "unblock_result", cls)

\* C12: in leave_all and unblock_all, after the leave or unblock of an item
\* has failed with an unclassified failure, the task awaits the 10-unit
\* pacing sleep with its session not yet closed by the scope exit and its
\* caller not yet answered; the next thing it does is the end of that sleep;
\* and unless it is cancelled in that sleep, the sleep ends having run its
\* 10 units before the close and before the operation raises the failure.
C12_FatalFailureIsPacedFirst ==
  \A a \in Acc : op \in {"leave", "unblock"} =>
    \A j \in FailedItem(a, "Exception") :
      /\ Len(trace[a]) = j =>
           /\ res[a].k = "run" /\ Places(a, "close") = {}
           /\ Top(a).pc \in {"leave_sleep", "unblock_sleep"}
           /\ Top(a).pend = Raise(Exc("Exception", a, j))
      /\ Len(trace[a]) > j =>
           /\ trace[a][j + 1].e = "sleep" /\ trace[a][j + 1].i = PACING_DELAY
           /\ ~CancelledAfter(a, j) => trace[a][j + 1].r = "ok"
      /\ \A k \in Places(a, "close") : k > j + 1
      /\ Finished(a) => Len(trace[a]) > j
      /\ res[a] = Raise(Exc("Exception", a, j)) =>
           /\ trace[a][j + 1] = Ev("sleep", 10, "ok")
           /\ Slept(trace[a]) = 10 * Cardinality(Places(a, "unblock") \cup Places(a, "leave"))

\* unblock_all has raised the unclassified failure of its second unblock,
\* after that item's pacing sleep and the close of its session.
C12_Witness ==
  \E a \in Acc :
    /\ op = "unblock" /\ res[a].k = "exc" /\ res[a].x.cls = "Exception"
    /\ Results(Only(a, "unblock_result")) = <<"ok", "Exception">>
    /\ Cardinality(PlacesR(a, "sleep", "ok")) = 2
    /\ Places(a, "close") # {} /\ sess[a][1].closed

\* ----------------------------------------------------------------- C13
\* The item the loop of account a goes to after item i, and the event that
\* records an attempt on an item.
ItemAfter(a, i) == IF op = "leave" THEN i + 1 ELSE NextUser(items[a], i + 1)
Attempt == IF op = "leave" THEN "leave" ELSE "unblock"

\* C13: in leave_all and unblock_all a forbidden answer to the leave or
\* unblock of an item is handled as any other HTTP error is: a warning is
\* logged at once, the item is attempted that one time only, the pacing
\* sleep is awaited with no failure pending, and after it the loop goes on
\* with the next item (or ends normally when there is none); an operation
\* that raised did so with a failure that is no HTTP error.
C13_ForbiddenIsSkippedLikeTransient ==
  \A a \in Acc : op \in {"leave", "unblock"} =>
    /\ \A j \in FailedItem(a, "Forbidden") \cup FailedItem(a, "HTTPException") :
         LET i == trace[a][j].i
             n == ItemAfter(a, i)
         IN /\ Len(trace[a]) > j
            /\ trace[a][j + 1] = Ev("log", i, "warning")
            /\ Cardinality({k \in Places(a, Attempt) : trace[a][k].i = i}) = 1
            /\ Len(trace[a]) = j + 1 =>
                 /\ res[a].k = "run" /\ Top(a).pend = NoRes
                 /\ Top(a).pc \in {"leave_sleep", "unblock_sleep"}
            /\ Len(trace[a]) > j + 1 => trace[a][j + 2].e = "sleep"
            /\ (Len(trace[a]) > j + 2 /\ trace[a][j + 2].r = "ok") =>
                 trace[a][j + 3] = IF n <= Len(items[a]) THEN Ev(Attempt, n, "")
                                   ELSE Ev("close", 1, trace[a][j + 3].r)
            /\ (Finished(a) /\ ~CancelledAfter(a, j) /\ n > Len(items[a])) =>
                 res[a] = Ret("None")
    /\ res[a].k = "exc" => ~IsHTTPError(res[a].x.cls)

\* unblock_all returned normally after a forbidden answer to its first
\* unblock and a successful second one.
C13_Witness ==
  \E a \in Acc :
    /\ op = "unblock" /\ res[a] = Ret("None")
    /\ Results(Only(a, "unblock_result")) = <<"Forbidden", "ok">>
    /\ Cardinality(PlacesR(a, "log", "warning")) = 1
    /\ Cardinality(Places(a, "sleep")) = 2

\* ----------------------------------------------------------------- C14
\* The events that record a remote call being started, the event that
\* records the answer of each, and the places of a's trace holding either.
RemoteCalls == {"fetch", "leave", "unblock"}
AnswerOf(e) ==
  CASE e = "fetch" -> "fetch_result"
    [] e = "leave" -> "leave_result"
    [] e = "unblock" -> "unblock_result"
CallPlaces(a) == {j \in 1..Len(trace[a]) : trace[a][j].e \in RemoteCalls}
AnswerPlaces(a) ==
  {j \in 1..Len(trace[a]) : \E e \in RemoteCalls : trace[a][j].e = AnswerOf(e)}
\* The calls of account a that have started and not been answered.
InFlight(a) == Cardinality(CallPlaces(a)) - Cardinality(AnswerPlaces(a))

\* C14: in every state of a batch of several accounts, each account has at
\* most one remote call in flight, held by the one suspended call frame of
\* its task; the answer of a call is the next thing its task records; and in
\* leave_all and unblock_all the call for an item, the first item apart, is
\* started right after the end of the full pacing sleep of the item before,
\* itself after that item's answer.
C14_OneRemoteCallAtATime ==
  \A a \in Acc :
    /\ InFlight(a) \in {0, 1}
    /\ InFlight(a) = 1 <=>
         (res[a].k = "run" /\ frames[a] # <<>> /\ Top(a).pc \in RemoteCalls)
    /\ Cardinality({d \in 1..Len(frames[a]) : frames[a][d].pc \in RemoteCalls}) <= 1
    /\ \A j \in CallPlaces(a) :
         /\ Len(trace[a]) > j =>
              /\ trace[a][j + 1].e = AnswerOf(trace[a][j].e)
              /\ trace[a][j + 1].i = trace[a][j].i
         /\ (op # "verify" /\ \E k \in CallPlaces(a) : k < j) =>
              /\ trace[a][j - 1] = Ev("sleep", PACING_DELAY, "ok")
              /\ j - 3 \in AnswerPlaces(a)
              /\ trace[a][j - 3].i < trace[a][j].i
              /\ \A k \in CallPlaces(a) : k < j => k < j - 3

\* Two accounts of one batch at the same time in their second leave, each
\* after its first was answered and paced: the calls of different accounts
\* overlap, those of one account do not.
C14_Witness ==
  /\ op = "leave" /\ accounts = <<1, 2>>
  /\ InFlight(1) = 1 /\ InFlight(2) = 1
  /\ Cardinality(CallPlaces(1)) = 2 /\ Cardinality(CallPlaces(2)) = 2
  /\ Top(1).i = 2 /\ Top(2).i = 2

\* ----------------------------------------------------------------- C15
\* The profile fetches of account a so far all answered a transient signal,
\* every login succeeded and the task was not cancelled.
OnlyTransient(a) ==
  /\ \A j \in Places(a, "fetch_result") : IsTransient(trace[a][j].r)
  /\ \A j \in Places(a, "login_result") : trace[a][j].r = "ok"
  /\ ~Cancelled(a)
\* A session of account a whose connection ended before its ready signal.
NeverReady(a) ==
  \E s \in 1..Len(sess[a]) : sess[a][s].conn = "stopped" /\ ~sess[a][s].ready

\* C15: while every profile fetch of verify_account has answered a transient
\* signal, the call has not ended, whatever the number k of those answers:
\* it sleeps for its k-th retry or is in its (k + 1)-th attempt, every
\* attempt a call nested in the one before; and a verify_account whose
\* sessions all become ready ends, by a return or an exception, once the
\* transient answers stop.
C15_RetriesWithoutBound ==
  /\ [](\A a \in Acc :
          LET k == Cardinality(Places(a, "fetch_result"))
              n == Cardinality(Places(a, "construct"))
          IN (op = "verify" /\ res[a].k # "none" /\ OnlyTransient(a)) =>
               /\ ~Finished(a)
               /\ n \in {k, k + 1} /\ Len(frames[a]) = n
               /\ Cardinality(Places(a, "fetch")) \in {k, k + 1}
               /\ (n = k /\ k > 0) => Top(a).pc = "sleep90")
  /\ \A a \in Acc :
       (op = "verify" /\ res[a].k = "run") ~> (Finished(a) \/ NeverReady(a))

\* verify_account still running after as many transient answers as a run
\* has, in one more attempt, nested in all those before.
C15_Witness ==
  \E a \in Acc :
    /\ op = "verify" /\ OnlyTransient(a) /\ res[a].k = "run"
    /\ Cardinality(Places(a, "fetch_result")) = MaxRetries
    /\ Top(a).pc = "fetch" /\ Len(frames[a]) = MaxRetries + 1

\* ----------------------------------------------------------------- C16
\* The clients of account a that are constructed and not closed.
OpenSessions(a) == {s \in 1..Len(sess[a]) : ~sess[a][s].closed}

\* C16: during verify_account at most one session of the account is open at
\* any time: when a retry constructs its client, the client of the attempt
\* that failed is closed already.
C16_AtMostOneOpenSession ==
  \A a \in Acc : op = "verify" =>
    /\ Cardinality(OpenSessions(a)) <= 1
    /\ \A j \in Places(a, "construct") :
         trace[a][j].i > 1 =>
           \E k \in Places(a, "close") : k < j /\ trace[a][k].i = trace[a][j].i - 1

\* ----------------------------------------------------------------- C17
\* The users of account a's list the loop of unblock_all passes over, and
\* those it attempts.
Skipped(a) ==
  {u \in 1..Len(items[a]) : IsClientUser(items[a][u]) \/ ~items[a][u].blocked}
Attempted(a) == {trace[a][j].i : j \in Places(a, "unblock")}

\* C17: in unblock_all every pacing sleep is the one of an unblock attempt:
\* it is a 10-unit sleep that follows the answer of an attempt with no other
\* sleep between; no user the loop passes over is attempted, so none is
\* paced; the sleeps begun are as many as the attempts answered, and once the
\* operation has ended as many as the attempts, whatever their answers; and
\* an operation that returned attempted, and paced, every user it did not
\* pass over and no other.
C17_OneDelayPerUnblockAttempt ==
  \A a \in Acc : op = "unblock" =>
    LET att == Places(a, "unblock")
        ans == Places(a, "unblock_result")
        sl == Places(a, "sleep")
    IN /\ Attempted(a) \cap Skipped(a) = {}
       /\ Cardinality(Attempted(a)) = Cardinality(att)
       /\ \A k \in sl :
            /\ trace[a][k].i = PACING_DELAY
            /\ \E j \in ans :
                 /\ j < k
                 /\ \A m \in (j + 1)..(k - 1) : trace[a][m].e = "log"
       /\ \A j \in ans : Len(trace[a]) > j + 1 => \E k \in sl : k \in {j + 1, j + 2}
       /\ Cardinality(sl) <= Cardinality(ans)
       /\ Cardinality(ans) <= Cardinality(sl) + 1
       /\ Finished(a) => Cardinality(sl) = Cardinality(att)
       /\ (Finished(a) /\ ~Cancelled(a)) => Slept(trace[a]) = 10 * Cardinality(att)
       /\ res[a] = Ret("None") =>
            Attempted(a) = (1..Len(items[a])) \ Skipped(a)

\* unblock_all returned after enumerating three users, one of them not
\* blocked and one the client's own: two were passed over, one unblock was
\* attempted and one delay slept.
C17_Witness ==
  \E a \in Acc :
    /\ op = "unblock" /\ res[a] = Ret("None") /\ Len(items[a]) = 3
    /\ Cardinality(Skipped(a)) = 2
    /\ \E u \in Skipped(a) : IsClientUser(items[a][u])
    /\ \E u \in Skipped(a) : ~IsClientUser(items[a][u])
    /\ Cardinality(Places(a, "unblock")) = 1
    /\ Cardinality(PlacesR(a, "sleep", "ok")) = 1

\* ----------------------------------------------------------------- C18
\* The accounts of the batch's list.
Listed == {accounts[i] : i \in 1..Len(accounts)}

\* C18: once a batch operation has returned normally, every task it created
\* has returned, none has a call frame left, and every client those tasks
\* constructed is closed with its connection task over; and a step in which
\* the task of one account runs changes the sessions of no other account.
C18_ReturnedBatchLeavesNothingOpen ==
  /\ [](bpc = "returned" =>
          /\ Len(tasks) = Len(accounts)
          /\ \A a \in Listed :
               /\ res[a].k = "ret" /\ frames[a] = <<>>
               /\ sess[a] # <<>>
               /\ \A s \in 1..Len(sess[a]) :
                    sess[a][s].closed /\ sess[a][s].conn \notin {"scheduled", "running"}
          /\ \A a \in Acc \ Listed : sess[a] = <<>> /\ res[a].k = "none")
  /\ [][\A a, b \in Acc :
          (a # b /\ trace'[a] # trace[a]) =>
             (sess'[b] = sess[b] /\ frames'[b] = frames[b] /\ trace'[b] = trace[b])]_vars

\* verify_all returned for three accounts whose tasks ended in another order
\* than the list's; one of them retried, and both its sessions are closed.
C18_Witness ==
  /\ op = "verify" /\ bpc = "returned" /\ accounts = <<1, 2, 3>>
  /\ done = <<2, 3, 1>>
  /\ Len(sess[1]) = 2 /\ sess[1][1].closed /\ sess[1][2].closed
  /\ Places(2, "close") # {} /\ Places(3, "close") # {}

\* ----------------------------------------------------------------- C19
\* C19: the step in which a connection task ends changes nothing of the
\* task that created it: no frame, no result, no event; and while an account
\* has a session whose connection ended before its ready signal, its task,
\* unless it is cancelled, is running and suspended in the ready-wait of
\* that session, has closed no session since, and the batch call has not
\* returned: it is still running when that task is the one it awaits.
C19_ConnectionLossNeverNoticed ==
  /\ [][nstop' # nstop =>
          (frames' = frames /\ res' = res /\ trace' = trace /\ bpc' = bpc)]_vars
  /\ [](\A a \in Acc : \A s \in 1..Len(sess[a]) :
          (sess[a][s].conn = "stopped" /\ ~sess[a][s].ready /\ ~Cancelled(a)) =>
             /\ res[a].k = "run"
             /\ Len(frames[a]) = s /\ Top(a).pc = "ready"
             /\ \A k \in Places(a, "close") : trace[a][k].i # s
             /\ trace[a][Len(trace[a])] = Ev("wait_ready", s, "")
             /\ ~ENABLED (VerifyReady(a) \/ LeaveAllReady(a) \/ UnblockAllReady(a)
                            \/ Connect(a, s) \/ Close(a))
             /\ bpc # "returned"
             /\ (bidx <= Len(tasks) /\ tasks[bidx] = a) => bpc = "run")

\* The connection of the session of a retry of verify_account ended before
\* its ready signal: the task waits for ready, that session and the one of
\* the first attempt open, the batch call awaiting the task.
C19_Witness ==
  \E a \in Acc :
    /\ op = "verify" /\ ~Cancelled(a) /\ Len(sess[a]) = 2
    /\ sess[a][2].conn = "stopped" /\ ~sess[a][2].ready /\ ~sess[a][2].closed
    /\ ~sess[a][1].closed
    /\ At(a, "ready") /\ bpc = "run" /\ tasks[bidx] = a

====
